---------------------------- MODULE Spec2Model ----------------------------
(***************************************************************************)
(* A model of wsjtx_srv/wsjtx.py: the binary telegram codec, the           *)
(* worked-before tables and the UDP connector's serving loop.              *)
(*                                                                         *)
(* Representation of Python values:                                        *)
(*   bytes        a sequence of numbers 0..255                             *)
(*   int >= 0     its base-256 digits, most significant first, no leading  *)
(*                zero (0 is << >>); magic and 0xFFFFFFFF exceed the       *)
(*                range of TLC's integers, so ints never become numbers    *)
(*   int < 0      << -1 >> followed by the digits of its magnitude         *)
(*   float        its 8-byte IEEE-754 bit pattern                          *)
(*   str          a sequence of code points                                *)
(*   None         NoneVal                                                  *)
(*   a result     [ok |-> TRUE, v |-> value] or, for a raised exception,   *)
(*                [ok |-> FALSE, err |-> name of the exception]            *)
(***************************************************************************)
EXTENDS Integers, Sequences, FiniteSets, TLC

----------------------------------------------------------------------------
(* Python values and exceptions *)

NoneVal == << -1 >>

Ok(v) == [ok |-> TRUE, v |-> v]

Raise(e) == [ok |-> FALSE, err |-> e]

\* b''.join of two parts, either of which may have raised: the first
\* exception is the one that propagates
Join(r, rest) ==
    IF ~r.ok THEN r
    ELSE IF ~rest.ok THEN rest
    ELSE Ok(r.v \o rest.v)

Min(a, b) == IF a < b THEN a ELSE b

\* b [:n]
Take(b, n) == SubSeq(b, 1, Min(n, Len(b)))

\* b [n:]
Drop(b, n) == SubSeq(b, Min(n, Len(b)) + 1, Len(b))

RECURSIVE StripZeros(_)
StripZeros(b) ==
    IF b = << >> THEN << >>
    ELSE IF Head(b) = 0 THEN StripZeros(Tail(b)) ELSE b

RECURSIVE Zeros(_)
Zeros(n) == IF n <= 0 THEN << >> ELSE <<0>> \o Zeros(n - 1)

\* the int with the value of the (small) number n
RECURSIVE PyInt(_)
PyInt(n) == IF n = 0 THEN << >> ELSE PyInt(n \div 256) \o <<n % 256>>

\* the number of a small int (at most two digits), else TooBig
ToNat(d, TooBig) ==
    IF Len(d) = 0 THEN 0
    ELSE IF Len(d) = 1 THEN d[1]
    ELSE IF Len(d) = 2 THEN d[1] * 256 + d[2]
    ELSE TooBig

IsNeg(v) == v # << >> /\ Head(v) = -1

\* v is truthy (bool of an int)
Truthy(v) == v # << >>

\* a <= b for ints a, b >= 0
RECURSIVE DigitsLeq(_, _)
DigitsLeq(a, b) ==
    IF Len(a) # Len(b) THEN Len(a) < Len(b)
    ELSE IF a = << >> THEN TRUE
    ELSE IF Head(a) # Head(b) THEN Head(a) < Head(b)
    ELSE DigitsLeq(Tail(a), Tail(b))

\* two's complement negation of a fixed-width big-endian word
RECURSIVE AddOne(_)
AddOne(b) ==
    IF b = << >> THEN << >>
    ELSE LET n == Len(b)
             last == b[n]
         IN  IF last = 255 THEN AddOne(SubSeq(b, 1, n - 1)) \o <<0>>
             ELSE SubSeq(b, 1, n - 1) \o <<last + 1>>

Negate(b) == AddOne([i \in 1..Len(b) |-> 255 - b[i]])

----------------------------------------------------------------------------
(* struct.pack / struct.unpack for the formats the schema uses *)

Width(fmt) ==
    CASE fmt = "!B" -> 1
      [] fmt = "!L" -> 4
      [] fmt = "!Q" -> 8
      [] fmt = "!l" -> 4
      [] fmt = "!q" -> 8
      [] fmt = "!d" -> 8

Signed(fmt) == fmt \in {"!l", "!q"}

\* struct.pack (fmt, v): big-endian, struct.error when v is out of range
pack(fmt, v) ==
    LET w == Width(fmt) IN
    IF fmt = "!d" THEN Ok(v)
    ELSE IF IsNeg(v) THEN
        LET mag == Tail(v)
            word == Zeros(w - Len(mag)) \o mag
            \* -2^(8w-1) is the only magnitude with the top bit set
            fits == Len(mag) <= w
                    /\ (word[1] < 128
                        \/ word = <<128>> \o Zeros(w - 1))
        IN  IF Signed(fmt) /\ fits THEN Ok(Negate(word))
            ELSE Raise("struct.error")
    ELSE IF Len(v) > w THEN Raise("struct.error")
    ELSE LET word == Zeros(w - Len(v)) \o v
         IN  IF Signed(fmt) /\ word[1] >= 128 THEN Raise("struct.error")
             ELSE Ok(word)

\* struct.unpack (fmt, b) [0]: struct.error unless b has exactly the width
unpack(fmt, b) ==
    IF Len(b) # Width(fmt) THEN Raise("struct.error")
    ELSE IF fmt = "!d" THEN Ok(b)
    ELSE IF Signed(fmt) /\ b[1] >= 128
         THEN Ok(<< -1 >> \o StripZeros(Negate(b)))
    ELSE Ok(StripZeros(b))

----------------------------------------------------------------------------
(* str.encode ('utf-8') and bytes.decode ('utf-8') *)

EncodeChar(c) ==
    IF c < 128 THEN <<c>>
    ELSE IF c < 2048 THEN <<192 + (c \div 64), 128 + (c % 64)>>
    ELSE IF c < 65536
         THEN <<224 + (c \div 4096), 128 + ((c \div 64) % 64),
                128 + (c % 64)>>
    ELSE <<240 + (c \div 262144), 128 + ((c \div 4096) % 64),
           128 + ((c \div 64) % 64), 128 + (c % 64)>>

RECURSIVE Utf8Encode(_)
Utf8Encode(s) ==
    IF s = << >> THEN << >> ELSE EncodeChar(Head(s)) \o Utf8Encode(Tail(s))

IsCont(b, i) == i <= Len(b) /\ b[i] >= 128 /\ b[i] < 192

\* the number of bytes the character led by byte b0 takes; 0: no lead byte
SeqLen(b0) ==
    IF b0 < 128 THEN 1
    ELSE IF b0 >= 194 /\ b0 <= 223 THEN 2
    ELSE IF b0 >= 224 /\ b0 <= 239 THEN 3
    ELSE IF b0 >= 240 /\ b0 <= 244 THEN 4
    ELSE 0

\* the code point of the character of n bytes that starts at b [i]
CodePoint(b, i, n) ==
    CASE n = 1 -> b[i]
      [] n = 2 -> (b[i] - 192) * 64 + (b[i + 1] - 128)
      [] n = 3 -> (b[i] - 224) * 4096 + (b[i + 1] - 128) * 64
                  + (b[i + 2] - 128)
      [] n = 4 -> (b[i] - 240) * 262144 + (b[i + 1] - 128) * 4096
                  + (b[i + 2] - 128) * 64 + (b[i + 3] - 128)

\* the strict decoder: every byte is a lead byte or one of the continuation
\* bytes its lead byte asks for; no overlong form, no surrogate, nothing
\* above U+10FFFF
Utf8Decode(b) ==
    LET leads == {i \in 1..Len(b) : ~IsCont(b, i)}
        WellFormed(i) ==
            LET n == SeqLen(b[i])
                c == CodePoint(b, i, n)
            IN  /\ n > 0
                /\ \A j \in (i + 1)..(i + n - 1) : IsCont(b, j)
                /\ ~IsCont(b, i + n)
                /\ CASE n = 3 -> c >= 2048 /\ ~(c >= 55296 /\ c <= 57343)
                     [] n = 4 -> c >= 65536 /\ c <= 1114111
                     [] OTHER -> TRUE
        Nth(k) == CHOOSE i \in leads :
                    Cardinality({j \in leads : j <= i}) = k
    IN  IF (Len(b) > 0 /\ IsCont(b, 1))
           \/ \E i \in leads : ~WellFormed(i)
        THEN Raise("UnicodeDecodeError")
        ELSE Ok([k \in 1..Cardinality(leads) |->
                    CodePoint(b, Nth(k), SeqLen(b[Nth(k)]))])

----------------------------------------------------------------------------
(* class UTF8_String: the object is its value *)

NullLength == <<255, 255, 255, 255>>

\* pack ('%ds' % length, value): value cut or zero-padded to length bytes
PackS(length, value) ==
    Take(value, length) \o Zeros(length - Len(value))

\* a length word beyond any slice of a datagram
LengthOf(word) == ToNat(word, 65536)

UTF8_String_deserialize(bytes) ==
    LET offset == 4
        lw == unpack("!L", Take(bytes, offset))
    IN  IF ~lw.ok THEN lw
        ELSE IF lw.v = NullLength THEN Ok(NoneVal)
        ELSE LET length == LengthOf(lw.v)
                 slice  == Take(Drop(bytes, offset), length)
             IN  IF Len(slice) # length THEN Raise("struct.error")
                 ELSE Utf8Decode(slice)

UTF8_String_serialize(value) ==
    IF value = NoneVal THEN NullLength
    ELSE LET length == Len(value)
         IN  pack("!L", PyInt(length)).v \o PackS(length, Utf8Encode(value))

UTF8_String_serialization_size(value) ==
    IF value = NoneVal THEN 4 ELSE 4 + Len(Utf8Encode(value))

----------------------------------------------------------------------------
(* class Optional_Quint: the object is [value, size]; size is Unset on an *)
(* object that deserialize did not make (__init__ sets only value)        *)

Unset == -1

Optional_Quint_formats(length) ==
    CASE length = 1 -> "!B"
      [] length = 4 -> "!L"
      [] length = 8 -> "!Q"

Optional_Quint_new(value) == [value |-> value, size |-> Unset]

\* the else branch names `self` in a classmethod, where only cls is bound
Optional_Quint_deserialize(bytes, length) ==
    IF Len(bytes) = 0
    THEN Ok([value |-> NoneVal, size |-> 0])
    ELSE Raise("NameError")

Optional_Quint_serialize(object) ==
    IF object.value = NoneVal THEN Ok(<< >>)
    ELSE IF object.size = Unset THEN Raise("AttributeError")
    ELSE IF object.size \notin {1, 4, 8} THEN Raise("KeyError")
    ELSE pack(Optional_Quint_formats(object.size), object.value)

Optional_Quint_serialization_size(object) ==
    IF object.value = NoneVal THEN Ok(0)
    ELSE IF object.size = Unset THEN Raise("AttributeError")
    ELSE Ok(object.size)

----------------------------------------------------------------------------
(* class QDateTime: the object is [date, time, timespec, offset] *)

QDateTime_init(date, time, timespec, offset) ==
    IF ~(offset = NoneVal \/ timespec = PyInt(2))
    THEN Raise("AssertionError")
    ELSE IF timespec = PyInt(2) /\ offset # NoneVal
    THEN Raise("ValueError")
    ELSE Ok([date |-> date, time |-> time, timespec |-> timespec,
             offset |-> offset])

\* unpack ('!qLB', bytes [:13])
QDateTime_deserialize(bytes) ==
    LET head == Take(bytes, 13)
    IN  IF Len(head) # 13 THEN Raise("struct.error")
        ELSE
        LET date     == unpack("!q", SubSeq(head, 1, 8)).v
            time     == unpack("!L", SubSeq(head, 9, 12)).v
            timespec == unpack("!B", SubSeq(head, 13, 13)).v
        IN  IF timespec = PyInt(2)
            THEN LET o == unpack("!l", Take(Drop(bytes, 13), 4))
                 IN  IF ~o.ok THEN o
                     ELSE QDateTime_init(date, time, timespec, o.v)
            ELSE QDateTime_init(date, time, timespec, NoneVal)

QDateTime_serialize(self) ==
    Join(pack("!q", self.date),
    Join(pack("!L", self.time),
    Join(pack("!B", self.timespec),
         IF self.offset = NoneVal THEN Ok(<< >>)
         ELSE pack("!l", self.offset))))

QDateTime_serialization_size(self) ==
    IF self.offset = NoneVal THEN 13 ELSE 13 + 4

----------------------------------------------------------------------------
(* class QColor: the object is [spec, red, green, blue, alpha] *)

cmax == <<255, 255>>

spec_rgb == PyInt(1)

spec_invalid == PyInt(0)

QColor_serialization_size == 11

QColor(red, green, blue, alpha, spec) ==
    [spec |-> spec, red |-> red, green |-> green, blue |-> blue,
     alpha |-> alpha]

\* unpack ('!BHHHHH', bytes [:11]): spec, alpha, red, green, blue, pad
QColor_deserialize(bytes) ==
    LET b == Take(bytes, QColor_serialization_size)
        H(i) == StripZeros(SubSeq(b, i, i + 1))
    IN  IF Len(b) # QColor_serialization_size THEN Raise("struct.error")
        ELSE Ok(QColor(H(4), H(6), H(8), H(2), StripZeros(<<b[1]>>)))

PackH(v) == IF Len(v) > 2 THEN Raise("struct.error")
            ELSE Ok(Zeros(2 - Len(v)) \o v)

QColor_serialize(self) ==
    Join(pack("!B", self.spec),
    Join(PackH(self.alpha),
    Join(PackH(self.red),
    Join(PackH(self.green),
    Join(PackH(self.blue), Ok(<<0, 0>>))))))

color_red   == QColor(cmax, << >>, << >>, cmax, spec_rgb)
color_white == QColor(cmax, cmax, cmax, cmax, spec_rgb)
color_black == QColor(<< >>, << >>, << >>, cmax, spec_rgb)
color_cyan  == QColor(<< >>, cmax, cmax, cmax, spec_rgb)
color_cyan1 == QColor(<<153, 153>>, cmax, cmax, cmax, spec_rgb)
color_pink  == QColor(cmax, << >>, cmax, cmax, spec_rgb)
color_pink1 == QColor(cmax, <<170, 170>>, cmax, cmax, spec_rgb)
color_invalid == QColor(<< >>, << >>, << >>, cmax, spec_invalid)

----------------------------------------------------------------------------
(* Shortcuts for the data types: (format or element class, len) *)

quint8     == <<"!B", 1>>
quint32    == <<"!L", 4>>
quint64    == <<"!Q", 8>>
qint32     == <<"!l", 4>>
qbool      == quint8
qutf8      == <<"UTF8_String", 0>>
qdouble    == <<"!d", 8>>
opt_quint8 == <<"Optional_Quint", 1>>
qtime      == quint32
qdatetime  == <<"QDateTime", 0>>
qcolor     == <<"QColor", 0>>

\* isinstance (format, type (''))
IsStructFormat(format) ==
    format \in {"!B", "!L", "!Q", "!l", "!q", "!d"}

\* one (name, (format, length)) entry of a format list
F(name, t) == <<name, t[1], t[2]>>

----------------------------------------------------------------------------
(* class WSJTX_Telegram and the registered telegram classes *)

schema_version_number == PyInt(3)

magic == <<173, 188, 203, 218>>

WSJTX_Telegram_format ==
    << F("magic", quint32), F("version_number", quint32),
       F("type", quint32), F("id", qutf8) >>

\* type_registry: type tag -> class
type_registry ==
    [t \in 0..15 |->
        CASE t = 0  -> "WSJTX_Heartbeat"
          [] t = 1  -> "WSJTX_Status"
          [] t = 2  -> "WSJTX_Decode"
          [] t = 3  -> "WSJTX_Clear"
          [] t = 4  -> "WSJTX_Reply"
          [] t = 5  -> "WSJTX_QSO_Logged"
          [] t = 6  -> "WSJTX_Close"
          [] t = 7  -> "WSJTX_Replay"
          [] t = 8  -> "WSJTX_Halt_TX"
          [] t = 9  -> "WSJTX_Free_Text"
          [] t = 10 -> "WSJTX_WSPR_Decode"
          [] t = 11 -> "WSJTX_Location"
          [] t = 12 -> "WSJTX_Logged_ADIF"
          [] t = 13 -> "WSJTX_Highlight_Call"
          [] t = 14 -> "WSJTX_Switch_Config"
          [] t = 15 -> "WSJTX_Configure"]

Classes == {"WSJTX_Telegram"} \cup {type_registry[t] : t \in 0..15}

\* the class attribute `type`; None on the base class
ClassType(cls) ==
    IF cls = "WSJTX_Telegram" THEN NoneVal
    ELSE PyInt(CHOOSE t \in 0..15 : type_registry[t] = cls)

\* the fields a class adds to WSJTX_Telegram.format
Extension(cls) ==
    CASE cls = "WSJTX_Heartbeat" ->
           << F("max_schema", quint32), F("version", qutf8),
              F("revision", qutf8) >>
      [] cls = "WSJTX_Status" ->
           << F("dial_frq", quint64), F("mode", qutf8), F("dx_call", qutf8),
              F("report", qutf8), F("tx_mode", qutf8),
              F("tx_enabled", qbool), F("xmitting", qbool),
              F("decoding", qbool), F("rx_df", quint32), F("tx_df", quint32),
              F("de_call", qutf8), F("de_grid", qutf8), F("dx_grid", qutf8),
              F("tx_watchdog", qbool), F("sub_mode", qutf8),
              F("fast_mode", qbool), F("special_op", quint8),
              F("frq_tolerance", quint32), F("t_r_period", quint32),
              F("config_name", qutf8), F("tx_message", qutf8) >>
      [] cls = "WSJTX_Decode" ->
           << F("is_new", qbool), F("time", qtime), F("snr", qint32),
              F("delta_t", qdouble), F("delta_f", quint32),
              F("mode", qutf8), F("message", qutf8),
              F("low_confidence", qbool), F("off_air", qbool) >>
      [] cls = "WSJTX_Clear" -> << F("window", opt_quint8) >>
      [] cls = "WSJTX_Reply" ->
           << F("time", qtime), F("snr", qint32), F("delta_t", qdouble),
              F("delta_f", quint32), F("mode", qutf8), F("message", qutf8),
              F("low_confidence", qbool), F("modifiers", quint8) >>
      [] cls = "WSJTX_QSO_Logged" ->
           << F("time_off", qdatetime), F("dx_call", qutf8),
              F("dx_grid", qutf8), F("tx_frq", quint64), F("mode", qutf8),
              F("report_sent", qutf8), F("report_recv", qutf8),
              F("tx_power", qutf8), F("comments", qutf8), F("name", qutf8),
              F("time_on", qdatetime), F("operator_call", qutf8),
              F("my_call", qutf8), F("my_grid", qutf8),
              F("exchange_sent", qutf8), F("exchange_recv", qutf8),
              F("adif_propmode", qutf8) >>
      [] cls = "WSJTX_Close" -> << >>
      [] cls = "WSJTX_Replay" -> << >>
      [] cls = "WSJTX_Halt_TX" -> << F("auto_tx_only", qbool) >>
      [] cls = "WSJTX_Free_Text" -> << F("text", qutf8), F("send", qbool) >>
      [] cls = "WSJTX_WSPR_Decode" ->
           << F("is_new", qbool), F("time", qtime), F("snr", qint32),
              F("delta_t", qdouble), F("frq", quint64), F("drift", qint32),
              F("callsign", qutf8), F("grid", qutf8), F("power", qint32),
              F("off_air", qbool) >>
      [] cls = "WSJTX_Location" -> << F("location", qutf8) >>
      [] cls = "WSJTX_Logged_ADIF" -> << F("adif_txt", qutf8) >>
      [] cls = "WSJTX_Highlight_Call" ->
           << F("callsign", qutf8), F("bg_color", qcolor),
              F("fg_color", qcolor), F("highlight_last", qbool) >>
      [] cls = "WSJTX_Switch_Config" -> << F("adif_txt", qutf8) >>
      [] cls = "WSJTX_Configure" ->
           << F("mode", qutf8), F("frq_tolerance", quint32),
              F("sub_mode", qutf8), F("fast_mode", qbool),
              F("t_r_period", quint32), F("rx_df", quint32),
              F("dx_call", qutf8), F("dx_grid", qutf8),
              F("gen_messages", qbool) >>
      [] OTHER -> << >>

Format(cls) == WSJTX_Telegram_format \o Extension(cls)

NamesOf(format) == {format[i][1] : i \in 1..Len(format)}

FieldNames(cls) == NamesOf(Format(cls))

\* ord () of the characters the model writes its strings with
Ord ==
    (" " :> 32) @@ ("." :> 46) @@ ("-" :> 45) @@ ("<" :> 60) @@ (">" :> 62)
    @@ ("0" :> 48) @@ ("1" :> 49) @@ ("2" :> 50) @@ ("3" :> 51)
    @@ ("4" :> 52) @@ ("5" :> 53) @@ ("6" :> 54) @@ ("7" :> 55)
    @@ ("8" :> 56) @@ ("9" :> 57) @@ ("A" :> 65) @@ ("B" :> 66)
    @@ ("C" :> 67) @@ ("D" :> 68) @@ ("E" :> 69) @@ ("F" :> 70)
    @@ ("G" :> 71) @@ ("H" :> 72) @@ ("I" :> 73) @@ ("J" :> 74)
    @@ ("K" :> 75) @@ ("L" :> 76) @@ ("M" :> 77) @@ ("N" :> 78)
    @@ ("O" :> 79) @@ ("P" :> 80) @@ ("Q" :> 81) @@ ("R" :> 82)
    @@ ("S" :> 83) @@ ("T" :> 84) @@ ("U" :> 85) @@ ("V" :> 86)
    @@ ("W" :> 87) @@ ("X" :> 88) @@ ("Y" :> 89) @@ ("Z" :> 90)
    @@ ("a" :> 97) @@ ("e" :> 101) @@ ("j" :> 106) @@ ("m" :> 109)
    @@ ("r" :> 114) @@ ("s" :> 115) @@ ("t" :> 116) @@ ("v" :> 118)
    @@ ("w" :> 119) @@ ("e-acute" :> 233) @@ ("euro" :> 8364)

\* the str written as a tuple of characters
Str(chars) == [i \in 1..Len(chars) |-> Ord[chars[i]]]

EmptyDict == [n \in {} |-> << >>]

WSJTX_Telegram_defaults ==
    ("magic" :> magic) @@ ("version_number" :> PyInt(3))
    @@ ("id" :> Str(<<"w", "s", "j", "t", "-", "s", "e", "r", "v", "e", "r">>))

Defaults(cls) ==
    CASE cls = "WSJTX_Heartbeat" ->
           ("max_schema" :> PyInt(3)) @@ ("version" :> << >>)
           @@ ("revision" :> << >>) @@ WSJTX_Telegram_defaults
      [] cls = "WSJTX_Clear" ->
           ("window" :> NoneVal) @@ WSJTX_Telegram_defaults
      [] cls = "WSJTX_Free_Text" ->
           ("send" :> PyInt(0)) @@ WSJTX_Telegram_defaults
      [] cls = "WSJTX_Highlight_Call" ->
           ("fg_color" :> color_black) @@ ("bg_color" :> color_white)
           @@ ("highlight_last" :> PyInt(0)) @@ WSJTX_Telegram_defaults
      [] OTHER -> WSJTX_Telegram_defaults

\* cls (kw as keywords): the telegram object [cls, attrs], or the exception raised
\* params: the defaults, updated with kw, and the type of the class when
\* neither gives one
Params(cls, p0) ==
    IF "type" \in DOMAIN p0 THEN p0 ELSE p0 @@ ("type" :> ClassType(cls))

\* the asserts of __init__ and its setattr of every field of the format
CheckedInit(cls, type, names, params) ==
    IF params["magic"] # magic THEN Raise("AssertionError")
    ELSE IF ~DigitsLeq(params["version_number"], schema_version_number)
         THEN Raise("AssertionError")
    ELSE IF ~(names \subseteq DOMAIN params) THEN Raise("KeyError")
    ELSE IF type # NoneVal /\ type # params["type"]
         THEN Raise("AssertionError")
    ELSE Ok([cls |-> cls, attrs |-> [n \in names |-> params[n]]])

WSJTX_Telegram_init(cls, kw) ==
    CheckedInit(cls, ClassType(cls), FieldNames(cls),
                Params(cls, kw @@ Defaults(cls)))

\* format.deserialize (b, length) of an element class
Element_deserialize(format, b, length) ==
    CASE format = "UTF8_String"    -> UTF8_String_deserialize(b)
      [] format = "Optional_Quint" -> Optional_Quint_deserialize(b, length)
      [] format = "QDateTime"      -> QDateTime_deserialize(b)
      [] format = "QColor"         -> QColor_deserialize(b)

\* value.serialization_size of a deserialized element
Element_serialization_size(format, object) ==
    CASE format = "UTF8_String"    -> UTF8_String_serialization_size(object)
      [] format = "Optional_Quint" ->
           Optional_Quint_serialization_size(object).v
      [] format = "QDateTime"      -> QDateTime_serialization_size(object)
      [] format = "QColor"         -> QColor_serialization_size

\* value.value: a quint loses its size, the other objects are their value
Element_value(format, object) ==
    IF format = "Optional_Quint" THEN object.value ELSE object

\* the object one entry of the format deserializes to: what unpack gives
\* for a struct format, format.deserialize (b, length) for an element class
FieldObject(fmt, b, length) ==
    IF IsStructFormat(fmt) THEN unpack(fmt, Take(b, length))
    ELSE Element_deserialize(fmt, b, length)

\* the bytes the entry took, and the value that goes into kw
FieldSize(fmt, length, object) ==
    IF IsStructFormat(fmt) THEN length
    ELSE Element_serialization_size(fmt, object)

FieldValue(fmt, object) ==
    IF IsStructFormat(fmt) THEN object ELSE Element_value(fmt, object)

\* the loop of deserialize from the i-th entry of the format on, and its
\* body once the entry's object r is there
RECURSIVE DeserializeFrom(_, _, _, _)
DeserializeField(format, i, b, kw, r) ==
    IF ~r.ok THEN r
    ELSE DeserializeFrom(
            format, i + 1,
            Drop(b, FieldSize(format[i][2], format[i][3], r.v)),
            (format[i][1] :> FieldValue(format[i][2], r.v)) @@ kw)

DeserializeFrom(format, i, b, kw) ==
    IF i > Len(format) THEN Ok(kw)
    ELSE DeserializeField(format, i, b, kw,
                          FieldObject(format[i][2], b, format[i][3]))

\* cls.deserialize (bytes): the dict of the fields of cls.format
deserialize(cls, bytes) == DeserializeFrom(Format(cls), 1, bytes, EmptyDict)

InRegistry(type) == ToNat(type, 16) \in DOMAIN type_registry

\* WSJTX_Telegram.from_bytes (bytes).
\* return c (kw as keywords), kw updated with c.deserialize (bytes)
FromClass(c, kw, kw2) ==
    IF ~kw2.ok THEN kw2 ELSE WSJTX_Telegram_init(c, kw2.v @@ kw)

\* from_bytes without its test `if type in cls.type_registry`
FromSelf_unknown_type_raises(bytes, kw, self) ==
    IF ~self.ok THEN self
    ELSE IF InRegistry(kw["type"])
    THEN FromClass(type_registry[ToNat(kw["type"], 16)], kw,
                   deserialize(type_registry[ToNat(kw["type"], 16)], bytes))
    ELSE Raise("KeyError")

\* from_bytes once self = cls (kw as keywords) is made
FromSelf(bytes, kw, self) ==
    IF ~self.ok THEN self
    ELSE IF InRegistry(kw["type"])
    THEN FromClass(type_registry[ToNat(kw["type"], 16)], kw,
                   deserialize(type_registry[ToNat(kw["type"], 16)], bytes))
    ELSE self

\* from_bytes once kw = cls.deserialize (bytes) is there
FromKw(bytes, kw) ==
    IF ~kw.ok THEN kw
    ELSE FromSelf(bytes, kw.v, WSJTX_Telegram_init("WSJTX_Telegram", kw.v))

from_bytes(bytes) == FromKw(bytes, deserialize("WSJTX_Telegram", bytes))

\* the bytes one field contributes to as_bytes
FieldBytes(fmt, v) ==
    CASE fmt = "QDateTime"      -> QDateTime_serialize(v)
      [] fmt = "QColor"         -> QColor_serialize(v)
      [] IsStructFormat(fmt)    -> pack(fmt, v)
      [] fmt = "UTF8_String"    -> Ok(UTF8_String_serialize(v))
      [] fmt = "Optional_Quint" ->
           Optional_Quint_serialize(Optional_Quint_new(v))

RECURSIVE SerializeFrom(_, _, _)
SerializeFrom(format, i, attrs) ==
    IF i > Len(format) THEN Ok(<< >>)
    ELSE Join(FieldBytes(format[i][2], attrs[format[i][1]]),
              SerializeFrom(format, i + 1, attrs))

\* tel.as_bytes ()
as_bytes(tel) == SerializeFrom(Format(tel.cls), 1, tel.attrs)

----------------------------------------------------------------------------
(* The reference entity list (afu.dxcc.DXCC_File, by_type ['CURRENT']): an  *)
(* entity is [code, name, prefixes]; a call matches every entity one of     *)
(* whose prefixes it starts with                                            *)

IsPrefix(p, s) == Len(p) <= Len(s) /\ SubSeq(s, 1, Len(p)) = p

dxcc_list ==
    << [code |-> Str(<<"2", "0", "6">>), name |-> "AUSTRIA",
        prefixes |-> {Str(<<"O", "E">>)}],
       [code |-> Str(<<"0", "5", "4">>), name |-> "EUROPEAN RUSSIA",
        prefixes |-> {Str(<<"R">>)}],
       [code |-> Str(<<"0", "1", "5">>), name |-> "ASIATIC RUSSIA",
        prefixes |-> {Str(<<"R">>)}] >>

\* dxcc_list.callsign_lookup (call): the entities the call may belong to
callsign_lookup(call) ==
    LET Matches(e) == \E p \in e.prefixes : IsPrefix(p, call)
    IN  SelectSeq(dxcc_list, Matches)

\* dxcc_list.by_name [name]
by_name(name) ==
    IF \E i \in 1..Len(dxcc_list) : dxcc_list[i].name = name
    THEN Ok(dxcc_list[CHOOSE i \in 1..Len(dxcc_list) :
                        dxcc_list[i].name = name])
    ELSE Raise("KeyError")

----------------------------------------------------------------------------
(* class WBF is the set of its items (lookup is membership: always_match    *)
(* is never set and every record stored is truthy); class Worked_Before is  *)
(* band_info and dxcc_info, each a dict band -> WBF                         *)

ALL == Str(<<"A", "L", "L">>)

color_wbf           == <<color_invalid, color_invalid>>
color_dxcc          == <<color_black, color_pink>>
color_dxcc_band     == <<color_black, color_pink1>>
color_new_call      == <<color_black, color_cyan>>
color_new_call_band == <<color_black, color_cyan1>>

\* d [key].add_item (item), making the WBF of a new key first if asked to
AddItem(d, key, item) ==
    [k \in DOMAIN d \cup {key} |->
        IF k = key THEN (IF key \in DOMAIN d THEN d[key] ELSE {}) \cup {item}
        ELSE d[k]]

\* fuzzy_match_dxcc_code (call, only_one): a list of codes or one code.
\* What it returns for no match, None, is written << >>: its callers test
\* only `if not dxccs` and `if dxcc_code`
fuzzy_match_dxcc_code(call, only_one) ==
    LET entities == callsign_lookup(call)
    IN  IF entities # << >>
        THEN IF only_one /\ Len(entities) = 1 THEN entities[1].code
             ELSE IF ~only_one
                  THEN [i \in 1..Len(entities) |-> entities[i].code]
             ELSE << >>
        ELSE << >>

\* lookup_color_new_call (call)
\* lookup_color_new_call with its two colors swapped
lookup_color_new_call_swapped(bi, call) ==
    IF call \in bi[ALL] THEN color_new_call ELSE color_new_call_band

lookup_color_new_call(bi, call) ==
    IF call \in bi[ALL] THEN color_new_call_band ELSE color_new_call

\* all (d [key].lookup (x) for x in dxccs); KeyError when d has no such key
AllWorked(d, key, dxccs) ==
    IF key \notin DOMAIN d THEN Raise("KeyError")
    ELSE Ok(\A i \in 1..Len(dxccs) : dxccs[i] \in d[key])

\* lookup_color (band, call) on the tables bi = band_info, di = dxcc_info
\* the rest of lookup_color once both all (...) are there; the second one
\* is computed only if the first is false
\* lookup_color that tests the entities of the band before those of ALL
WorkedColor_band_first(bi, call, r2, r3) ==
    IF ~r3.ok THEN r3
    ELSE IF r3.v THEN Ok(color_dxcc)
    ELSE IF ~r2.ok THEN r2
    ELSE IF r2.v THEN Ok(lookup_color_new_call(bi, call))
    ELSE Ok(color_dxcc_band)

WorkedColor(bi, call, r2, r3) ==
    IF ~r2.ok THEN r2
    ELSE IF r2.v THEN Ok(lookup_color_new_call(bi, call))
    ELSE IF ~r3.ok THEN r3
    ELSE IF r3.v THEN Ok(color_dxcc)
    ELSE Ok(color_dxcc_band)

\* the rest of lookup_color once dxccs is there
DxccsColor(bi, di, band, call, dxccs) ==
    IF dxccs = << >> THEN Ok(color_dxcc)
    ELSE WorkedColor(bi, call, AllWorked(di, ALL, dxccs),
                     AllWorked(di, band, dxccs))

\* lookup_color that takes a band without table for a band without calls
lookup_color_band_unchecked(bi, di, band, call) ==
    IF band \in DOMAIN bi /\ call \in bi[band] THEN Ok(color_wbf)
    ELSE DxccsColor(bi, di, band, call, fuzzy_match_dxcc_code(call, FALSE))

\* lookup_color without its lookup of the call in the table of the band
lookup_color_no_exact_match(bi, di, band, call) ==
    IF band \notin DOMAIN bi THEN Ok(color_dxcc)
    ELSE DxccsColor(bi, di, band, call, fuzzy_match_dxcc_code(call, FALSE))

lookup_color(bi, di, band, call) ==
    IF band \notin DOMAIN bi THEN Ok(color_dxcc)
    ELSE IF call \in bi[band] THEN Ok(color_wbf)
    ELSE DxccsColor(bi, di, band, call, fuzzy_match_dxcc_code(call, FALSE))

\* int (s, 10) of a str of decimal digits; ValueError for any other str
RECURSIVE DecimalValue(_)
DecimalValue(s) ==
    IF s = << >> THEN 0
    ELSE DecimalValue(SubSeq(s, 1, Len(s) - 1)) * 10 + (s[Len(s)] - 48)

int10(s) ==
    IF s # << >> /\ \A i \in 1..Len(s) : s[i] >= 48 /\ s[i] <= 57
    THEN Ok(DecimalValue(s))
    ELSE Raise("ValueError")

\* '%d' % n and '%03d' % n, for n >= 0
RECURSIVE Decimal(_)
Decimal(n) ==
    IF n < 10 THEN <<48 + n>> ELSE Decimal(n \div 10) \o <<48 + (n % 10)>>

Format03d(n) ==
    LET d == Decimal(n)
    IN  [i \in 1..(3 - Len(d)) |-> 48] \o d

\* match_dxcc (rec): the new dxcc_info, or the exception raised.  A record
\* is [band, call, dxcc, country, country_intl]; an absent dxcc is the
\* empty str, an absent country the empty name
\* '%03d' % int (rec ['DXCC'], 10), and dxcc_list.by_name [...].code
CodeOfNumber(n) == IF n.ok THEN Ok(Format03d(n.v)) ELSE n

CodeOfEntity(dxcc) == IF dxcc.ok THEN Ok(dxcc.v.code) ELSE dxcc

\* the dxcc_code match_dxcc finds for rec, or the exception raised
DxccCode(rec) ==
    IF rec.dxcc # << >> THEN CodeOfNumber(int10(rec.dxcc))
    ELSE IF rec.country # "" THEN CodeOfEntity(by_name(rec.country))
    ELSE IF rec.country_intl # ""
    THEN CodeOfEntity(by_name(rec.country_intl))
    ELSE Ok(fuzzy_match_dxcc_code(rec.call, TRUE))

\* if dxcc_code: the two add_item of match_dxcc
\* match_dxcc without its add_item to dxcc_info ['ALL']
AddCode_band_only(di, b, dxcc_code) ==
    IF ~dxcc_code.ok THEN dxcc_code
    ELSE IF dxcc_code.v # << >>
    THEN Ok(AddItem(di, b, dxcc_code.v))
    ELSE Ok(di)

AddCode(di, b, dxcc_code) ==
    IF ~dxcc_code.ok THEN dxcc_code
    ELSE IF dxcc_code.v # << >>
    THEN Ok(AddItem(AddItem(di, b, dxcc_code.v), ALL, dxcc_code.v))
    ELSE Ok(di)

match_dxcc(di, rec) == AddCode(di, rec.band, DxccCode(rec))

----------------------------------------------------------------------------
(* UDP_Connector.parse_message *)

\* str.split (): the maximal runs of characters that are not whitespace
IsSpace(c) == c \in {9, 10, 11, 12, 13, 28, 29, 30, 31, 32, 133, 160}

Split(s) ==
    LET starts == {i \in 1..Len(s) :
                     ~IsSpace(s[i]) /\ (i = 1 \/ IsSpace(s[i - 1]))}
        Nth(k) == CHOOSE i \in starts :
                    Cardinality({j \in starts : j <= i}) = k
        EndOf(i) == CHOOSE j \in i..Len(s) :
                      /\ \A m \in i..j : ~IsSpace(s[m])
                      /\ (j = Len(s) \/ IsSpace(s[j + 1]))
    IN  [k \in 1..Cardinality(starts) |-> SubSeq(s, Nth(k), EndOf(Nth(k)))]

CQ == Str(<<"C", "Q">>)

QRZ == Str(<<"Q", "R", "Z">>)

\* parse_message (tel) for tel.message = message: the call, None, or the
\* IndexError of indexing a list that is too short
\* the rest of parse_message on the words l that are left
\* parse_message without its test `if len (l) == 4` after CQ or QRZ
ParsedCall_first_after_cq(l) ==
    IF l = << >> THEN Raise("IndexError")
    ELSE IF l[1] \in {CQ, QRZ}
    THEN IF Len(l) < 2 THEN Raise("IndexError")
         ELSE Ok(l[2])
    ELSE IF Len(l) = 2 THEN Ok(l[2])
    ELSE IF Len(l) < 2 THEN Ok(NoneVal)
    ELSE IF Len(l) = 3 THEN Ok(l[2])
    ELSE Ok(NoneVal)

ParsedCall(l) ==
    IF l = << >> THEN Raise("IndexError")
    ELSE IF l[1] \in {CQ, QRZ}
    THEN IF Len(l) = 4 THEN Ok(l[3])
         ELSE IF Len(l) < 2 THEN Raise("IndexError")
         ELSE Ok(l[2])
    ELSE IF Len(l) = 2 THEN Ok(l[2])
    ELSE IF Len(l) < 2 THEN Ok(NoneVal)
    ELSE IF Len(l) = 3 THEN Ok(l[2])
    ELSE Ok(NoneVal)

\* l = tel.message.split (), and the last word dropped if it starts
\* with 'a'
ParsedWords(l) ==
    IF l = << >> THEN Raise("IndexError")
    ELSE ParsedCall(IF Head(l[Len(l)]) = Ord["a"]
                    THEN SubSeq(l, 1, Len(l) - 1) ELSE l)

parse_message(message) ==
    IF message = NoneVal \/ message = << >> THEN Ok(NoneVal)
    ELSE ParsedWords(Split(message))

\* call.lstrip ('<').rstrip ('>')
RECURSIVE lstrip(_, _)
lstrip(s, c) ==
    IF s # << >> /\ Head(s) = c THEN lstrip(Tail(s), c) ELSE s

RECURSIVE rstrip(_, _)
rstrip(s, c) ==
    IF s # << >> /\ s[Len(s)] = c
    THEN rstrip(SubSeq(s, 1, Len(s) - 1), c) ELSE s

----------------------------------------------------------------------------
(* The inputs of the model: the records of the log read at startup, the    *)
(* datagrams and sender addresses the socket yields, the names set_peer is *)
(* called with                                                             *)

\* UDP_Connector.band, and the adr of a connector that has no peer yet
band == Str(<<"4", "0", "m">>)

NoAdr == "None"

OE3 == Str(<<"O", "E", "3">>)

RK0 == Str(<<"R", "K", "0">>)

K1A == Str(<<"K", "1", "A">>)

Rec(b, c, d, n, ni) ==
    [band |-> b, call |-> c, dxcc |-> d, country |-> n, country_intl |-> ni]

LogRecords ==
    { Rec(band, OE3, Str(<<"2", "0", "6">>), "", ""),
      Rec(band, RK0, << >>, "", ""),
      Rec(band, K1A, << >>, "ATLANTIS", ""),
      Rec(<< >>, K1A, << >>, "", "") }

IdA == Str(<<"A">>)

IdB == Str(<<"B">>)

PeerNames == {IdA, IdB, Str(<<"Z">>)}

\* the bytes of the telegram cls (kw as keywords)
Wire(cls, kw) == as_bytes(WSJTX_Telegram_init(cls, kw).v).v

HeartbeatMsg(id) == Wire("WSJTX_Heartbeat", "id" :> id)

StatusMsg(id, decoding) ==
    Wire("WSJTX_Status",
         ("id" :> id) @@ ("dial_frq" :> <<107, 240, 208>>)
         @@ ("mode" :> Str(<<"F", "T", "8">>)) @@ ("dx_call" :> OE3)
         @@ ("report" :> Str(<<"-", "2">>))
         @@ ("tx_mode" :> Str(<<"F", "T", "8">>))
         @@ ("tx_enabled" :> PyInt(0)) @@ ("xmitting" :> PyInt(0))
         @@ ("decoding" :> PyInt(decoding)) @@ ("rx_df" :> PyInt(715))
         @@ ("tx_df" :> PyInt(1134)) @@ ("de_call" :> K1A)
         @@ ("de_grid" :> Str(<<"J", "N">>)) @@ ("dx_grid" :> << >>)
         @@ ("tx_watchdog" :> PyInt(0)) @@ ("sub_mode" :> NoneVal)
         @@ ("fast_mode" :> PyInt(0)) @@ ("special_op" :> PyInt(0))
         @@ ("frq_tolerance" :> NullLength) @@ ("t_r_period" :> NullLength)
         @@ ("config_name" :> Str(<<"T", "S">>))
         @@ ("tx_message" :> << >>))

DecodeMsg(id, message, is_new, off_air) ==
    Wire("WSJTX_Decode",
         ("id" :> id) @@ ("is_new" :> PyInt(is_new))
         @@ ("time" :> <<1, 2, 3>>) @@ ("snr" :> << -1, 18 >>)
         @@ ("delta_t" :> <<63, 201, 153, 153, 153, 153, 153, 154>>)
         @@ ("delta_f" :> PyInt(715))
         @@ ("mode" :> Str(<<"F", "T", "8">>)) @@ ("message" :> message)
         @@ ("low_confidence" :> PyInt(0)) @@ ("off_air" :> PyInt(off_air)))

ClearMsg(id) == Wire("WSJTX_Clear", "id" :> id)

UnknownMsg(id) ==
    Wire("WSJTX_Telegram", ("id" :> id) @@ ("type" :> PyInt(99)))

\* a telegram of a type that is not registered, with a payload of its own
UnknownPayloadMsg(id) == UnknownMsg(id) \o <<0, 0, 0, 1, 255>>

MsgCqOE3 == Str(<<"C", "Q", " ", "O", "E", "3", " ", "J", "N">>)

MsgRK0 == Str(<<"K", "1", "A", " ", "R", "K", "0", " ", "7", "3">>)

MsgBlank == Str(<<" ", " ">>)

\* a call WSJT-X could not resolve, shown as <...>, and a lone word
MsgHashed ==
    Str(<<"C", "Q", " ", "<", ".", ".", ".", ">", " ", "J", "N">>)

MsgOneWord == Str(<<"7", "3">>)

GoodDatagrams ==
    { HeartbeatMsg(IdA), HeartbeatMsg(IdB),
      StatusMsg(IdA, 0), StatusMsg(IdA, 1),
      DecodeMsg(IdA, MsgCqOE3, 1, 0), DecodeMsg(IdA, MsgRK0, 1, 0),
      DecodeMsg(IdA, MsgCqOE3, 0, 0), DecodeMsg(IdA, MsgCqOE3, 1, 1),
      ClearMsg(IdB), UnknownMsg(IdB), UnknownPayloadMsg(IdA) }

\* datagrams whose decoding fails: wrong magic, schema version 4, cut
\* short inside a field, and a Clear that carries its window byte
BadMagicMsg == <<173, 188, 203, 219>> \o Drop(HeartbeatMsg(IdA), 4)

BadVersionMsg ==
    Take(HeartbeatMsg(IdA), 4) \o <<0, 0, 0, 4>> \o Drop(HeartbeatMsg(IdA), 8)

TruncatedMsg == Take(StatusMsg(IdA, 0), 20)

BadDatagrams ==
    {BadMagicMsg, BadVersionMsg, TruncatedMsg, ClearMsg(IdB) \o <<1>>}

Datagrams ==
    GoodDatagrams \cup BadDatagrams
    \cup {DecodeMsg(IdA, MsgBlank, 1, 0), DecodeMsg(IdA, MsgHashed, 1, 0),
          DecodeMsg(IdA, MsgOneWord, 1, 0)}

\* from_bytes of the datagrams of the model, computed once
DecodedDatagrams == [d \in Datagrams |-> from_bytes(d)]

Decoded(bytes) == DecodedDatagrams[bytes]

\* what the socket yields: every datagram from the first address, and some
\* of them from the second one too
Arrivals ==
    (Datagrams \X {"addr1"})
    \cup ({HeartbeatMsg(IdA), HeartbeatMsg(IdB), StatusMsg(IdA, 0),
           BadMagicMsg} \X {"addr2"})

----------------------------------------------------------------------------
(* class UDP_Connector.  `self` is the record of its attributes, with the   *)
(* datagrams handed to socket.sendto in `socket` and, once a method has     *)
(* raised, the name of the exception in `exc` (the methods after it do      *)
(* nothing then).  pending_color is a dict in insertion order: a sequence   *)
(* of <<call, color>>                                                       *)

IsInstance(tel, cls) == tel.cls = cls

\* self.socket.sendto (tel.as_bytes (), self.adr), tel = cls (kw as keywords)
SendBytes(self, tel, bytes) ==
    IF ~bytes.ok THEN [self EXCEPT !.exc = bytes.err]
    ELSE [self EXCEPT !.socket =
             Append(@, [to |-> self.adr, tel |-> tel, bytes |-> bytes.v])]

SendTel(self, tel) ==
    IF ~tel.ok THEN [self EXCEPT !.exc = tel.err]
    ELSE SendBytes(self, tel.v, as_bytes(tel.v))

SendTo(self, cls, kw) == SendTel(self, WSJTX_Telegram_init(cls, kw))

\* color (callsign, fg_color = fg, bg_color = bg)
color(self, callsign, fg, bg) ==
    SendTo(self, "WSJTX_Highlight_Call",
           ("callsign" :> callsign) @@ ("fg_color" :> fg)
           @@ ("bg_color" :> bg))

\* heartbeat ()
heartbeat(self) ==
    SendTo(self, "WSJTX_Heartbeat",
           "version" :> Str(<<"4", "7", "1", "1">>))

\* self.pending_color [call] = color
SetItem(d, key, value) ==
    IF \E i \in 1..Len(d) : d[i][1] = key
    THEN [i \in 1..Len(d) |-> IF d[i][1] = key THEN <<key, value>> ELSE d[i]]
    ELSE Append(d, <<key, value>>)

\* update_color (call, color)
\* update_color without self.color_by_call [call] = color
update_color_forgetting(self, call, c) ==
    [self EXCEPT !.pending_color = SetItem(@, call, c)]

update_color(self, call, c) ==
    [self EXCEPT !.color_by_call = (call :> c) @@ @,
                 !.pending_color = SetItem(@, call, c)]

\* handle_decode (tel), on the tables of self.wbf
\* handle_decode without its test of self.color_by_call
DecodedColor_always_update(self, call, c) ==
    IF ~c.ok THEN [self EXCEPT !.exc = c.err]
    ELSE update_color(self, call, c.v)

\* the rest of handle_decode once color = lookup_color (band, call)
DecodedColor(self, call, c) ==
    IF ~c.ok THEN [self EXCEPT !.exc = c.err]
    ELSE IF call \in DOMAIN self.color_by_call
         THEN IF self.color_by_call[call] # c.v
              THEN update_color(self, call, c.v)
              ELSE self
    ELSE update_color(self, call, c.v)

\* the rest of handle_decode once call is stripped
\* handle_decode with `if not call` in place of its test of call
DecodedCall_any_call(self, call, bi, di) ==
    IF call = << >> THEN self
    ELSE DecodedColor(self, call, lookup_color(bi, di, band, call))

DecodedCall(self, call, bi, di) ==
    IF call = << >> \/ call = Str(<<".", ".", ".">>) THEN self
    ELSE DecodedColor(self, call, lookup_color(bi, di, band, call))

\* call = parse_message (tel) or '', then its lstrip and rstrip
DecodedMessage(self, parsed, bi, di) ==
    IF ~parsed.ok THEN [self EXCEPT !.exc = parsed.err]
    ELSE DecodedCall(
            self,
            rstrip(lstrip(IF parsed.v = NoneVal THEN << >> ELSE parsed.v,
                          Ord["<"]), Ord[">"]),
            bi, di)

handle_decode(self, tel, bi, di) ==
    IF Truthy(tel.attrs["off_air"]) \/ ~Truthy(tel.attrs["is_new"])
    THEN self
    ELSE DecodedMessage(self, parse_message(tel.attrs["message"]), bi, di)

\* the loop of handle_status over the pending colors, from the i-th on
RECURSIVE ColorPending(_, _, _)
ColorPending(self, pending, i) ==
    IF i > Len(pending) \/ self.exc # "" THEN self
    ELSE ColorPending(
            color(self, pending[i][1], pending[i][2][1], pending[i][2][2]),
            pending, i + 1)

\* handle_status (tel)
\* self.pending_color = {}, which an exception in the loop does not reach
ClearPending(self) ==
    IF self.exc # "" THEN self ELSE [self EXCEPT !.pending_color = << >>]

\* handle_status without its test of tel.decoding
handle_status_whatever_decoding(self, tel) ==
    ClearPending(ColorPending(self, self.pending_color, 1))

\* handle_status without its self.pending_color = {}
handle_status_keeping_pending(self, tel) ==
    IF ~Truthy(tel.attrs["decoding"])
    THEN ColorPending(self, self.pending_color, 1)
    ELSE self

handle_status(self, tel) ==
    IF ~Truthy(tel.attrs["decoding"])
    THEN ClearPending(ColorPending(self, self.pending_color, 1))
    ELSE self

\* handle (tel)
\* the two isinstance tests of handle; a telegram is of one class, so at
\* most one of them holds, and neither is reached if heartbeat raised
HandleByClass(self, tel, bi, di) ==
    IF self.exc # "" THEN self
    ELSE IF IsInstance(tel, "WSJTX_Status") THEN handle_status(self, tel)
    ELSE IF IsInstance(tel, "WSJTX_Decode")
    THEN handle_decode(self, tel, bi, di)
    ELSE self

handle(self, tel, bi, di) ==
    HandleByClass(
        IF ~self.heartbeat_seen \/ IsInstance(tel, "WSJTX_Heartbeat")
        THEN heartbeat(self) ELSE self,
        tel, bi, di)

\* receive (), the socket yielding (bytes, address)
\* receive without its test `if tel.id not in self.peer`
Register_any_id(self, id, address) ==
    [self EXCEPT !.peer = (id :> address) @@ @,
                 !.adr  = IF @ = NoAdr THEN address ELSE @]

\* receive without its test `if not self.adr`
Register_any_adr(self, id, address) ==
    [self EXCEPT !.peer = IF id \in DOMAIN @ THEN @ ELSE (id :> address) @@ @,
                 !.adr  = address]

\* the two tests of receive on the sender of the telegram
Register(self, id, address) ==
    [self EXCEPT !.peer = IF id \in DOMAIN @ THEN @ ELSE (id :> address) @@ @,
                 !.adr  = IF @ = NoAdr THEN address ELSE @]

\* receive once tel = WSJTX_Telegram.from_bytes (bytes) is there
Received(self, tel, address, bi, di) ==
    IF ~tel.ok THEN [self EXCEPT !.exc = tel.err]
    ELSE handle(Register(self, tel.v.attrs["id"], address), tel.v, bi, di)

receive(self, bytes, address, bi, di) ==
    Received(self, Decoded(bytes), address, bi, di)

\* set_peer (peername)
\* set_peer with self.peer.get (peername) in place of its test
set_peer_get(self, peername) ==
    [self EXCEPT !.adr = IF peername \in DOMAIN self.peer
                         THEN self.peer[peername] ELSE NoAdr]

set_peer(self, peername) ==
    IF peername \in DOMAIN self.peer
    THEN [self EXCEPT !.adr = self.peer[peername]]
    ELSE self

----------------------------------------------------------------------------
(* The program: main builds the Worked_Before tables from the log, makes   *)
(* the UDP_Connector and then calls receive for ever; an exception that    *)
(* nothing catches ends the process                                        *)

VARIABLES
    pc,              \* "build", "serve", "stopped" (ended by an exception),
                     \* or "codec" when the codec alone is exercised
    exc,             \* the exception that ended the process, "" if none
    band_info,       \* Worked_Before.band_info: band -> set of calls
    dxcc_info,       \* Worked_Before.dxcc_info: band -> set of entity codes
    peer,            \* UDP_Connector.peer: id -> address
    adr,             \* UDP_Connector.adr, NoAdr when None
    heartbeat_seen,  \* UDP_Connector.heartbeat_seen
    color_by_call,   \* UDP_Connector.color_by_call: call -> color
    pending_color,   \* UDP_Connector.pending_color
    rcvd,            \* the datagram the last receive got: <<bytes, address>>
    sent,            \* the datagrams the last receive sent, in order
    hb_sent,         \* a heartbeat has been sent in this session
    highlighted,     \* callsign -> the number of Highlights sent for it
    probe            \* the last codec operation and its result

vars == <<pc, exc, band_info, dxcc_info, peer, adr, heartbeat_seen,
          color_by_call, pending_color, rcvd, sent, hb_sent, highlighted,
          probe>>

wbfVars == <<band_info, dxcc_info>>

connVars == <<peer, adr, heartbeat_seen, color_by_call, pending_color,
              rcvd, sent, hb_sent, highlighted>>

NoProbe == [op |-> "none"]

\* Worked_Before.__init__ before the log is read, and the attributes
\* UDP_Connector.__init__ sets
InitState ==
    /\ exc = ""
    /\ band_info = (ALL :> {})
    /\ dxcc_info = (ALL :> {})
    /\ peer = EmptyDict
    /\ adr = NoAdr
    /\ heartbeat_seen = FALSE
    /\ color_by_call = EmptyDict
    /\ pending_color = << >>
    /\ rcvd = << >>
    /\ sent = << >>
    /\ hb_sent = FALSE
    /\ highlighted = EmptyDict
    /\ probe = NoProbe

Init == pc = "build" /\ InitState

\* one turn of the loop over the log in Worked_Before.__init__
AddRecord(rec) ==
    /\ pc = "build"
    /\ IF rec.band = << >>
       THEN UNCHANGED <<pc, exc, band_info, dxcc_info>>
       ELSE /\ band_info' =
                 AddItem(AddItem(band_info, rec.band, rec.call), ALL, rec.call)
            /\ LET m == match_dxcc(dxcc_info, rec)
               IN  IF m.ok
                   THEN dxcc_info' = m.v /\ UNCHANGED <<pc, exc>>
                   ELSE /\ pc' = "stopped"
                        /\ exc' = m.err
                        /\ UNCHANGED dxcc_info
    /\ UNCHANGED <<connVars, probe>>

\* the log is read: uc = UDP_Connector (wbf)
StartServing ==
    /\ pc = "build"
    /\ pc' = "serve"
    /\ UNCHANGED <<exc, wbfVars, connVars, probe>>

Self ==
    [peer |-> peer, adr |-> adr, heartbeat_seen |-> heartbeat_seen,
     color_by_call |-> color_by_call, pending_color |-> pending_color,
     socket |-> << >>, exc |-> ""]

IsHeartbeat(m) == m.tel.cls = "WSJTX_Heartbeat"

IsHighlight(m) == m.tel.cls = "WSJTX_Highlight_Call"

Update(self) ==
    /\ peer' = self.peer
    /\ adr' = self.adr
    /\ heartbeat_seen' = self.heartbeat_seen
    /\ color_by_call' = self.color_by_call
    /\ pending_color' = self.pending_color
    /\ sent' = self.socket
    /\ hb_sent' = (hb_sent \/ \E i \in 1..Len(self.socket) :
                                 IsHeartbeat(self.socket[i]))
    /\ highlighted' =
         [call \in DOMAIN highlighted
                   \cup {self.socket[i].tel.attrs["callsign"] :
                           i \in {j \in 1..Len(self.socket) :
                                    IsHighlight(self.socket[j])}} |->
            (IF call \in DOMAIN highlighted THEN highlighted[call] ELSE 0)
            + Cardinality({i \in 1..Len(self.socket) :
                             /\ IsHighlight(self.socket[i])
                             /\ self.socket[i].tel.attrs["callsign"] = call})]
    /\ exc' = self.exc
    /\ pc' = IF self.exc = "" THEN "serve" ELSE "stopped"

\* one turn of the loop of main: tel = uc.receive ()
Receive(bytes, address) ==
    /\ pc = "serve"
    /\ rcvd' = <<bytes, address>>
    /\ \E after \in {receive(Self, bytes, address, band_info, dxcc_info)} :
          Update(after)
    /\ UNCHANGED <<wbfVars, probe>>

\* uc.set_peer (peername)
SetPeer(peername) ==
    /\ pc = "serve"
    /\ adr' = set_peer(Self, peername).adr
    /\ UNCHANGED <<pc, exc, wbfVars, peer, heartbeat_seen, color_by_call,
                   pending_color, rcvd, sent, hb_sent, highlighted, probe>>

Next ==
    \/ \E rec \in LogRecords : AddRecord(rec)
    \/ StartServing
    \/ \E arrival \in Arrivals : Receive(arrival[1], arrival[2])
    \/ \E peername \in PeerNames : SetPeer(peername)

Spec == Init /\ [][Next]_vars

----------------------------------------------------------------------------
(* What the service promises, stated on the steps of Spec.  A step of the   *)
(* loop of main is recognised by the datagram it leaves in rcvd             *)

ReceiveStep == pc = "serve" /\ rcvd' # << >> /\ Receive(rcvd'[1], rcvd'[2])

\* the telegram of a datagram <<bytes, address>>, or the exception raised
Tel(datagram) == Decoded(datagram[1])

Highlights(s) == SelectSeq(s, IsHighlight)

\* the call handle_decode colors for a Decode telegram, << >> if none
YieldedCall(tel) ==
    IF Truthy(tel.attrs["off_air"]) \/ ~Truthy(tel.attrs["is_new"])
       \/ ~parse_message(tel.attrs["message"]).ok
       \/ parse_message(tel.attrs["message"]).v = NoneVal
    THEN << >>
    ELSE rstrip(lstrip(parse_message(tel.attrs["message"]).v, Ord["<"]),
                Ord[">"])

\* the base fields a datagram starts with, or the exception of decoding
\* them
DatagramBaseFields == [d \in Datagrams |-> deserialize("WSJTX_Telegram", d)]

BaseFields(bytes) == DatagramBaseFields[bytes]

\* the entry of call in a pending_color, << >> if it has none
PendingOf(pending, call) ==
    IF \E i \in 1..Len(pending) : pending[i][1] = call
    THEN pending[CHOOSE i \in 1..Len(pending) : pending[i][1] = call][2]
    ELSE << >>

\* C1: a datagram whose decoding fails (the assert on magic or on
\* version_number, or the struct.error of a buffer that is too short) is
\* discarded: the loop of main goes on serving, and peer, adr and
\* pending_color are what they were
BadDatagramIsDiscarded ==
    [][(ReceiveStep /\ ~Tel(rcvd').ok
        /\ Tel(rcvd').err \in {"AssertionError", "struct.error"})
         => pc' = "serve" /\ UNCHANGED <<peer, adr, pending_color>>]_vars

\* C2: handling a telegram sends a Heartbeat to adr if none was sent yet in
\* the session or the telegram is a Heartbeat, and sends none otherwise
HeartbeatOnlyWhenDue ==
    [][ReceiveStep /\ Tel(rcvd').ok
         => IF ~hb_sent \/ IsInstance(Tel(rcvd').v, "WSJTX_Heartbeat")
            THEN \E i \in 1..Len(sent') :
                    IsHeartbeat(sent'[i]) /\ sent'[i].to = adr'
            ELSE \A i \in 1..Len(sent') : ~IsHeartbeat(sent'[i])]_vars

\* C3: what a receive sent holds a Highlight only if the telegram received
\* was a Status whose decoding is false; a Decode sends no Highlight
HighlightOnlyOnIdleStatus ==
    /\ Highlights(sent) # << >>
         => /\ Tel(rcvd).ok
            /\ IsInstance(Tel(rcvd).v, "WSJTX_Status")
            /\ ~Truthy(Tel(rcvd).v.attrs["decoding"])
    /\ (rcvd # << >> /\ Tel(rcvd).ok
        /\ IsInstance(Tel(rcvd).v, "WSJTX_Decode"))
         => Highlights(sent) = << >>

\* the last receive sent Highlights
C3_HighlightSent == Highlights(sent) # << >>

\* C4: a Status with decoding false sends one Highlight to adr for each
\* entry of pending_color, in order, with the entry's call and colors, and
\* empties pending_color; a Status with decoding true sends no Highlight
\* and leaves pending_color as it was
StatusFlushesPending ==
    [][(ReceiveStep /\ Tel(rcvd').ok
        /\ IsInstance(Tel(rcvd').v, "WSJTX_Status"))
         => IF ~Truthy(Tel(rcvd').v.attrs["decoding"])
            THEN /\ Len(Highlights(sent')) = Len(pending_color)
                 /\ \A i \in 1..Len(pending_color) :
                       /\ Highlights(sent')[i].to = adr'
                       /\ Highlights(sent')[i].tel.attrs["callsign"]
                            = pending_color[i][1]
                       /\ Highlights(sent')[i].tel.attrs["fg_color"]
                            = pending_color[i][2][1]
                       /\ Highlights(sent')[i].tel.attrs["bg_color"]
                            = pending_color[i][2][2]
                 /\ pending_color' = << >>
            ELSE /\ Highlights(sent') = << >>
                 /\ pending_color' = pending_color]_vars

\* a Status flushed the colors of two calls
C4_TwoCallsFlushed ==
    /\ rcvd # << >> /\ Tel(rcvd).ok
    /\ IsInstance(Tel(rcvd).v, "WSJTX_Status")
    /\ Len(Highlights(sent)) = 2
    /\ pending_color = << >>

\* C5: a Decode that yields a call which already carries the color computed
\* for it leaves pending_color as it was; otherwise the entry of the call
\* becomes that color; and every entry of pending_color is always the last
\* color computed for its call
DecodeEnqueuesChangedColor ==
    [][/\ \A i \in 1..Len(pending_color') :
             /\ pending_color'[i][1] \in DOMAIN color_by_call'
             /\ pending_color'[i][2] = color_by_call'[pending_color'[i][1]]
       /\ (ReceiveStep /\ Tel(rcvd').ok
           /\ IsInstance(Tel(rcvd').v, "WSJTX_Decode")
           /\ YieldedCall(Tel(rcvd').v) \notin {<< >>, Str(<<".", ".", ".">>)}
           /\ lookup_color(band_info, dxcc_info, band,
                           YieldedCall(Tel(rcvd').v)).ok)
            => IF /\ YieldedCall(Tel(rcvd').v) \in DOMAIN color_by_call
                  /\ color_by_call[YieldedCall(Tel(rcvd').v)]
                       = lookup_color(band_info, dxcc_info, band,
                                      YieldedCall(Tel(rcvd').v)).v
               THEN pending_color' = pending_color
               ELSE /\ PendingOf(pending_color', YieldedCall(Tel(rcvd').v))
                         = lookup_color(band_info, dxcc_info, band,
                                        YieldedCall(Tel(rcvd').v)).v
                    /\ color_by_call'[YieldedCall(Tel(rcvd').v)]
                         = lookup_color(band_info, dxcc_info, band,
                                        YieldedCall(Tel(rcvd').v)).v]_vars

\* a Decode yielded a call whose color was computed and sent before
C5_SameColorAgain ==
    /\ pc = "serve"
    /\ rcvd # << >> /\ Tel(rcvd).ok
    /\ IsInstance(Tel(rcvd).v, "WSJTX_Decode")
    /\ YieldedCall(Tel(rcvd).v) \in DOMAIN color_by_call
    /\ pending_color = << >>

\* C6: no step removes an entry of peer or changes its address; a receive
\* adds id -> address exactly when the id of the telegram it decoded is not
\* in peer, and nothing else adds one
PeerOnlyGrows ==
    [][/\ \A id \in DOMAIN peer : id \in DOMAIN peer' /\ peer'[id] = peer[id]
       /\ IF /\ ReceiveStep /\ Tel(rcvd').ok
             /\ Tel(rcvd').v.attrs["id"] \notin DOMAIN peer
          THEN /\ DOMAIN peer' = DOMAIN peer \cup {Tel(rcvd').v.attrs["id"]}
               /\ peer'[Tel(rcvd').v.attrs["id"]] = rcvd'[2]
          ELSE DOMAIN peer' = DOMAIN peer]_vars

\* a registered id arrived from another address than the one it has in peer
C6_KnownIdOtherAddress ==
    /\ rcvd # << >> /\ Tel(rcvd).ok
    /\ Tel(rcvd).v.attrs["id"] \in DOMAIN peer
    /\ peer[Tel(rcvd).v.attrs["id"]] # rcvd[2]

\* C7: adr is None at first; the receive of a datagram that decodes sets it
\* to the sender's address if it is None and leaves it otherwise; set_peer
\* sets it to peer [peername] if peername is in peer and leaves it
\* otherwise; nothing else changes it
ActivePeerFollowsSetPeer ==
    /\ adr = NoAdr
    /\ [][/\ (ReceiveStep /\ Tel(rcvd').ok)
               => adr' = IF adr = NoAdr THEN rcvd'[2] ELSE adr
          /\ \A peername \in PeerNames :
               SetPeer(peername)
                 => adr' = IF peername \in DOMAIN peer THEN peer[peername]
                           ELSE adr
          /\ adr' # adr
               => \/ ReceiveStep /\ Tel(rcvd').ok /\ adr = NoAdr
                  \/ \E peername \in DOMAIN peer : SetPeer(peername)]_vars

\* a datagram arrived from another address than adr, and adr stayed
C7_OtherSenderIgnored ==
    /\ rcvd # << >> /\ Tel(rcvd).ok
    /\ adr # NoAdr
    /\ adr # rcvd[2]
    /\ Cardinality(DOMAIN peer) = 2

\* C12: a datagram whose base fields decode, with the right magic, a
\* version_number of at most 3 and a type that is not in type_registry,
\* decodes without exception to a WSJTX_Telegram that carries magic,
\* version_number, type and id as the datagram gives them and nothing else;
\* handling it leaves pending_color as it was, and the loop goes on
UnknownTypeIsGeneric ==
    [][(/\ ReceiveStep
        /\ BaseFields(rcvd'[1]).ok
        /\ BaseFields(rcvd'[1]).v["magic"] = magic
        /\ DigitsLeq(BaseFields(rcvd'[1]).v["version_number"], PyInt(3))
        /\ ~InRegistry(BaseFields(rcvd'[1]).v["type"]))
         => /\ Tel(rcvd').ok
            /\ Tel(rcvd').v.cls = "WSJTX_Telegram"
            /\ Tel(rcvd').v.attrs = BaseFields(rcvd'[1]).v
            /\ DOMAIN Tel(rcvd').v.attrs
                 = {"magic", "version_number", "type", "id"}
            /\ pending_color' = pending_color
            /\ pc' = "serve"]_vars

\* a telegram of type 99 with a payload was handled while colors were
\* pending
C12_UnknownTypeHandled ==
    /\ pc = "serve"
    /\ rcvd # << >> /\ rcvd[1] = UnknownPayloadMsg(IdA)
    /\ Tel(rcvd).ok
    /\ Len(pending_color) = 2

\* C22: adr is None or the address peer holds for some id, and every
\* datagram a receive sent, Heartbeat or Highlight, went to an address
\* that is not None and that peer holds for some id
ActivePeerIsRegistered ==
    /\ adr = NoAdr \/ \E id \in DOMAIN peer : peer[id] = adr
    /\ \A i \in 1..Len(sent) :
          /\ sent[i].to # NoAdr
          /\ \E id \in DOMAIN peer : peer[id] = sent[i].to

\* a Status from one address was answered by Highlights to adr, which is
\* another address
C22_HighlightToChosenPeer ==
    /\ adr # NoAdr
    /\ rcvd # << >> /\ rcvd[2] # adr
    /\ Highlights(sent) # << >>
    /\ \A i \in 1..Len(sent) : sent[i].to = adr

\* C23: color_by_call is never reset while the tables and the band stay
\* what they are, so at most one Highlight is ever sent for a callsign,
\* and a Decode of a call whose color was sent leaves pending_color empty
AtMostOneHighlightPerCall ==
    /\ \A call \in DOMAIN highlighted : highlighted[call] <= 1
    /\ \A call \in DOMAIN highlighted : call \in DOMAIN color_by_call
    /\ \A i \in 1..Len(pending_color) :
          pending_color[i][1] \notin DOMAIN highlighted

\* a Decode yielded a call for which a Highlight had been sent, after
\* another call was highlighted too
C23_DecodeAfterFlush ==
    /\ pc = "serve"
    /\ rcvd # << >> /\ Tel(rcvd).ok
    /\ IsInstance(Tel(rcvd).v, "WSJTX_Decode")
    /\ YieldedCall(Tel(rcvd).v) \in DOMAIN highlighted
    /\ Cardinality(DOMAIN highlighted) = 2

\* C27: a Decode with off_air set or is_new clear, and a Decode whose
\* call is empty or '...' once '<' and '>' are stripped, leaves
\* pending_color and color_by_call as they were, and the loop goes on
\* whatever lookup_color would do for the call
IgnoredDecodeChangesNothing ==
    [][(/\ ReceiveStep /\ Tel(rcvd').ok
        /\ IsInstance(Tel(rcvd').v, "WSJTX_Decode")
        /\ \/ Truthy(Tel(rcvd').v.attrs["off_air"])
           \/ ~Truthy(Tel(rcvd').v.attrs["is_new"])
           \/ /\ parse_message(Tel(rcvd').v.attrs["message"]).ok
              /\ YieldedCall(Tel(rcvd').v)
                   \in {<< >>, Str(<<".", ".", ".">>)})
         => /\ pending_color' = pending_color
            /\ color_by_call' = color_by_call
            /\ pc' = "serve"]_vars

\* a Decode of the call <...> was handled while a color was pending
C27_HashedCallIgnored ==
    /\ pc = "serve"
    /\ rcvd # << >> /\ rcvd[1] = DecodeMsg(IdA, MsgHashed, 1, 0)
    /\ pending_color # << >>

----------------------------------------------------------------------------
(* The codec alone: one step, which serializes and deserializes one value  *)
(* drawn from a bounded set and records what came out in probe             *)

MaxStrLen == 2

\* 'A', e-acute (two bytes in UTF-8), the euro sign (three bytes)
Alphabet == {Ord["A"], Ord["e-acute"], Ord["euro"]}

Strings == {NoneVal} \cup UNION {[1..k -> Alphabet] : k \in 0..MaxStrLen}

QuintWidths == {1, 4, 8}

\* no bytes at all, or a buffer of the declared width
QuintBuffers(w) ==
    {<< >>} \cup {Zeros(w - 1) \o <<x>> : x \in {0, 1, 255}}
            \cup {[i \in 1..w |-> 255]}

\* QDateTime objects that __init__ accepts
DateTimes ==
    {r.v : r \in {rr \in {QDateTime_init(<<37, 133, 88>>, <<1, 2>>, ts, off) :
                            ts \in {PyInt(0), PyInt(1), PyInt(2)},
                            off \in {NoneVal, <<14, 16>>}} : rr.ok}}

\* a value for a field of the given format
Sample(fmt, s, q, dt) ==
    CASE fmt = "UTF8_String"    -> s
      [] fmt = "Optional_Quint" -> q
      [] fmt = "QDateTime"      -> dt
      [] fmt = "QColor"         -> color_pink1
      [] fmt = "!d"             -> <<63, 201, 153, 153, 153, 153, 153, 154>>
      [] fmt = "!l"             -> << -1, 18 >>
      [] fmt = "!B"             -> PyInt(1)
      [] OTHER                  -> PyInt(715)

\* cls (kw as keywords) with every field of the class given
Instance(cls, s, q, dt) ==
    LET ext == Extension(cls)
        names == {ext[i][1] : i \in 1..Len(ext)}
        FmtOf(n) == ext[CHOOSE i \in 1..Len(ext) : ext[i][1] = n][2]
    IN  WSJTX_Telegram_init(cls,
            [n \in names \cup {"id"} |->
                IF n = "id" THEN s ELSE Sample(FmtOf(n), s, q, dt)])

TelegramInstances ==
    {r.v : r \in {rr \in {Instance(type_registry[t], s, q, dt) :
                            t \in DOMAIN type_registry, s \in Strings,
                            q \in {NoneVal, PyInt(1)}, dt \in DateTimes} :
                    rr.ok}}

InitCodec == pc = "codec" /\ InitState

StringRoundTrip(v) ==
    /\ pc = "codec"
    /\ probe = NoProbe
    /\ probe' = [op    |-> "UTF8_String",
                 value |-> v,
                 bytes |-> UTF8_String_serialize(v),
                 size  |-> UTF8_String_serialization_size(v),
                 back  |-> UTF8_String_deserialize(UTF8_String_serialize(v))]
    /\ UNCHANGED <<pc, exc, wbfVars, connVars>>

QuintRoundTrip(bytes, w) ==
    /\ pc = "codec"
    /\ probe = NoProbe
    /\ LET object == Optional_Quint_deserialize(bytes, w)
       IN  probe' = [op     |-> "Optional_Quint",
                     bytes  |-> bytes,
                     length |-> w,
                     object |-> object,
                     size   |-> IF object.ok
                                THEN Optional_Quint_serialization_size(object.v)
                                ELSE object,
                     back   |-> IF object.ok
                                THEN Optional_Quint_serialize(object.v)
                                ELSE object]
    /\ UNCHANGED <<pc, exc, wbfVars, connVars>>

TelegramRoundTrip(t) ==
    /\ pc = "codec"
    /\ probe = NoProbe
    /\ LET bytes == as_bytes(t)
       IN  probe' = [op    |-> "Telegram",
                     tel   |-> t,
                     bytes |-> bytes,
                     back  |-> IF bytes.ok THEN from_bytes(bytes.v) ELSE bytes]
    /\ UNCHANGED <<pc, exc, wbfVars, connVars>>

\* the timespec bytes and the offsets a QDateTime is made with
Timespecs == {PyInt(0), PyInt(1), PyInt(2), PyInt(3)}

Offsets == {NoneVal, PyInt(0), <<14, 16>>}

\* the 13 bytes of date, time and timespec, alone or followed by 4 bytes
DateTimeBuffers ==
    {pack("!q", <<37, 133, 88>>).v \o pack("!L", <<1, 2>>).v
       \o pack("!B", ts).v \o tail :
         ts \in Timespecs, tail \in {<< >>, <<0, 0, 14, 16>>}}

\* QDateTime (date, time, timespec, offset)
DateTimeConstruct(timespec, offset) ==
    /\ pc = "codec"
    /\ probe = NoProbe
    /\ probe' = [op       |-> "QDateTime",
                 timespec |-> timespec,
                 offset   |-> offset,
                 object   |-> QDateTime_init(<<37, 133, 88>>, <<1, 2>>,
                                             timespec, offset)]
    /\ UNCHANGED <<pc, exc, wbfVars, connVars>>

\* QDateTime.deserialize (bytes)
DateTimeDecode(bytes) ==
    /\ pc = "codec"
    /\ probe = NoProbe
    /\ probe' = [op     |-> "QDateTime.deserialize",
                 bytes  |-> bytes,
                 object |-> QDateTime_deserialize(bytes)]
    /\ UNCHANGED <<pc, exc, wbfVars, connVars>>

NextCodec ==
    \/ \E v \in Strings : StringRoundTrip(v)
    \/ \E w \in QuintWidths : \E bytes \in QuintBuffers(w) :
          QuintRoundTrip(bytes, w)
    \/ \E t \in TelegramInstances : TelegramRoundTrip(t)
    \/ \E timespec \in Timespecs : \E offset \in Offsets :
          DateTimeConstruct(timespec, offset)
    \/ \E bytes \in DateTimeBuffers : DateTimeDecode(bytes)

SpecCodec == InitCodec /\ [][NextCodec]_vars

\* C8: from_bytes (t.as_bytes ()) is a telegram of the class of t, every
\* field of which equals the field of t
TelegramRoundTrips ==
    probe.op = "Telegram"
      => /\ probe.bytes.ok
         /\ probe.back.ok
         /\ probe.back.v.cls = probe.tel.cls
         /\ \A n \in FieldNames(probe.tel.cls) :
               probe.back.v.attrs[n] = probe.tel.attrs[n]

\* C9: deserialize (serialize (v)) is v, for None (length word 0xFFFFFFFF
\* and no payload), the empty str and every other str; the length word is
\* the number of payload bytes; serialization_size is the encoded length
StringRoundTrips ==
    probe.op = "UTF8_String"
      => /\ probe.back = Ok(probe.value)
         /\ probe.size = Len(probe.bytes)
         /\ Take(probe.bytes, 4) =
               IF probe.value = NoneVal THEN NullLength
               ELSE pack("!L", PyInt(Len(probe.bytes) - 4)).v
         /\ probe.value = NoneVal => Len(probe.bytes) = 4

\* C10: deserialize of no bytes is the absent value, which serializes to
\* no bytes and has serialization_size 0; deserialize of length bytes is
\* the unsigned big-endian int they hold, which serializes to these bytes
QuintRoundTrips ==
    probe.op = "Optional_Quint"
      => /\ probe.object.ok
         /\ IF probe.bytes = << >>
            THEN /\ probe.object.v.value = NoneVal
                 /\ probe.back = Ok(<< >>)
                 /\ probe.size = Ok(0)
            ELSE /\ probe.object.v.value = StripZeros(probe.bytes)
                 /\ probe.size = Ok(probe.length)
                 /\ probe.back = Ok(probe.bytes)

\* C11: QDateTime (date, time, timespec, offset) makes an object exactly
\* when offset is there if and only if timespec is 2, and raises otherwise;
\* deserialize of 17 bytes whose timespec byte is 2 makes an object that
\* holds the offset of the last 4 bytes, and deserialize of 13 bytes whose
\* timespec byte is not 2 makes an object without offset
DateTimeOffsetIffTimespec2 ==
    /\ probe.op = "QDateTime"
         => (probe.object.ok
               <=> ((probe.offset # NoneVal) <=> (probe.timespec = PyInt(2))))
    /\ (probe.op = "QDateTime.deserialize" /\ Len(probe.bytes) = 17
        /\ probe.bytes[13] = 2)
         => probe.object.ok /\ probe.object.v.offset = <<14, 16>>
    /\ (probe.op = "QDateTime.deserialize" /\ Len(probe.bytes) = 13
        /\ probe.bytes[13] # 2)
         => probe.object.ok /\ probe.object.v.offset = NoneVal

----------------------------------------------------------------------------
(* Worked_Before alone: the tables are built from the records of a log,    *)
(* then lookup_color is called on them and what it returned is kept in     *)
(* probe                                                                   *)

Band20m == Str(<<"2", "0", "m">>)

Band15m == Str(<<"1", "5", "m">>)

OE5 == Str(<<"O", "E", "5">>)

RA1 == Str(<<"R", "A", "1">>)

RZ9 == Str(<<"R", "Z", "9">>)

\* a log: calls of one entity, of two candidate entities and of none, with
\* and without a DXCC field, with a COUNTRY or COUNTRY_INTL the list has
\* and a COUNTRY it does not have, on two bands
WbfRecords ==
    { Rec(band, OE3, Str(<<"2", "0", "6">>), "", ""),
      Rec(Band20m, OE5, << >>, "", ""),
      Rec(Band20m, RK0, << >>, "", ""),
      Rec(Band20m, RA1, Str(<<"0", "5", "4">>), "", ""),
      Rec(band, RZ9, Str(<<"0", "1", "5">>), "", ""),
      Rec(band, K1A, << >>, "", ""),
      Rec(Band20m, K1A, << >>, "AUSTRIA", ""),
      Rec(Band20m, RZ9, << >>, "", "ASIATIC RUSSIA"),
      Rec(band, OE5, << >>, "ATLANTIS", "") }

LookupBands == {band, Band20m, Band15m}

LookupCalls == {OE3, OE5, RK0, K1A}

\* wbf.lookup_color (b, call)
LookupColor(b, call) ==
    /\ pc = "serve"
    /\ probe' = [op    |-> "lookup_color",
                 band  |-> b,
                 call  |-> call,
                 color |-> lookup_color(band_info, dxcc_info, b, call)]
    /\ UNCHANGED <<pc, exc, wbfVars, connVars>>

NextWbf ==
    \/ \E rec \in WbfRecords : AddRecord(rec)
    \/ StartServing
    \/ \E b \in LookupBands : \E call \in LookupCalls : LookupColor(b, call)

SpecWbf == Init /\ [][NextWbf]_vars

\* the codes of the entities a call may belong to
CandidateCodes(call) ==
    {callsign_lookup(call)[i].code : i \in 1..Len(callsign_lookup(call))}

\* lookup_color was called for a band that has records and a call that was
\* not worked on it
LookedUpNewOnBand ==
    /\ probe.op = "lookup_color"
    /\ probe.band \in DOMAIN band_info
    /\ probe.call \notin band_info[probe.band]

\* C13: lookup_color (band, call) for a band that band_info has no table
\* for returns color_dxcc, whatever the call and the other tables
NoRecordsOnBandIsNewDxcc ==
    (probe.op = "lookup_color" /\ probe.band \notin DOMAIN band_info)
      => probe.color = Ok(color_dxcc)

\* a band without records was looked up for a call that was worked on
\* another band and whose entity was worked
C13_UnknownBandKnownCall ==
    /\ probe.op = "lookup_color"
    /\ probe.band \notin DOMAIN band_info
    /\ probe.call \in band_info[ALL]
    /\ CandidateCodes(probe.call) # {}
    /\ CandidateCodes(probe.call) \subseteq dxcc_info[ALL]

\* C14: lookup_color (band, call) for a band that has records and a call
\* that is in the table of this band returns color_wbf, both colors of
\* which are color_invalid, whatever the entities the call may belong to
WorkedOnBandIsNoHighlight ==
    (/\ probe.op = "lookup_color"
     /\ probe.band \in DOMAIN band_info
     /\ probe.call \in band_info[probe.band])
      => probe.color = Ok(<<color_invalid, color_invalid>>)

\* a call worked on the band was looked up, one of whose candidate
\* entities was never worked
C14_WorkedCallNewEntity ==
    /\ probe.op = "lookup_color"
    /\ probe.band \in DOMAIN band_info
    /\ probe.call \in band_info[probe.band]
    /\ ~(CandidateCodes(probe.call) \subseteq dxcc_info[ALL])

\* C15: for a band with records, a call not worked on it and with at least
\* one candidate entity, all of them in the entity table of ALL,
\* lookup_color returns color_new_call_band if the call is in the call
\* table of ALL and color_new_call if it is not
KnownEntitiesGiveNewCallColor ==
    (/\ LookedUpNewOnBand
     /\ CandidateCodes(probe.call) # {}
     /\ CandidateCodes(probe.call) \subseteq dxcc_info[ALL])
      => probe.color = IF probe.call \in band_info[ALL]
                       THEN Ok(color_new_call_band)
                       ELSE Ok(color_new_call)

\* a call with two candidate entities, both worked, was looked up on a band
\* it was not worked on, after it was worked on another one
C15_AmbiguousCallWorkedElsewhere ==
    /\ LookedUpNewOnBand
    /\ Cardinality(CandidateCodes(probe.call)) = 2
    /\ CandidateCodes(probe.call) \subseteq dxcc_info[ALL]
    /\ probe.call \in band_info[ALL]

\* C16: on band 40m, which has records, a call that is not in the table of
\* 40m and whose candidate entities, at least one, are all in the entity
\* table of ALL gets color_new_call_band
AllEntitiesKnownIsNewCallOnBand ==
    (/\ LookedUpNewOnBand
     /\ probe.band = band
     /\ CandidateCodes(probe.call) # {}
     /\ CandidateCodes(probe.call) \subseteq dxcc_info[ALL])
      => probe.color = Ok(color_new_call_band)

\* C16 as amended: on band 40m, which has records, a call that is not in
\* the table of 40m and whose candidate entities, at least one, are all in
\* the entity table of ALL gets color_new_call_band if it was worked on
\* another band, and color_new_call if it was worked on no band
AllEntitiesKnownIsNewCallOnBandOrGlobally ==
    (/\ LookedUpNewOnBand
     /\ probe.band = band
     /\ CandidateCodes(probe.call) # {}
     /\ CandidateCodes(probe.call) \subseteq dxcc_info[ALL])
      => /\ probe.call \in band_info[ALL]
              => probe.color = Ok(color_new_call_band)
         /\ probe.call \notin band_info[ALL]
              => probe.color = Ok(color_new_call)

\* the case of the doctest of lookup_color: a call with two candidate
\* entities, both worked, that was itself worked on no band, is looked up
\* on 40m
C16_NeverWorkedCallKnownEntities ==
    /\ LookedUpNewOnBand
    /\ probe.band = band
    /\ Cardinality(CandidateCodes(probe.call)) = 2
    /\ CandidateCodes(probe.call) \subseteq dxcc_info[ALL]
    /\ probe.call \notin band_info[ALL]

\* C17: for a band with records, a call not worked on it and with at least
\* one candidate entity, not all of them in the entity table of ALL,
\* lookup_color returns color_dxcc if every candidate entity is in the
\* entity table of the band and color_dxcc_band, which is another pair of
\* colors, if one of them is not
UnknownEntityGivesNewDxccColor ==
    /\ color_dxcc_band # color_dxcc
    /\ (/\ LookedUpNewOnBand
        /\ CandidateCodes(probe.call) # {}
        /\ ~(CandidateCodes(probe.call) \subseteq dxcc_info[ALL]))
         => probe.color =
              IF /\ probe.band \in DOMAIN dxcc_info
                 /\ CandidateCodes(probe.call) \subseteq dxcc_info[probe.band]
              THEN Ok(color_dxcc)
              ELSE Ok(color_dxcc_band)

\* C18: for a band with records and a call not worked on it, lookup_color
\* returns color_new_call or color_new_call_band only if the call has
\* candidate entities and all of them are in the entity table of ALL; if
\* one of them is not, or the call has none, it returns color_dxcc or
\* color_dxcc_band
AmbiguityKeepsNovelty ==
    LookedUpNewOnBand
      => /\ probe.color \in {Ok(color_new_call), Ok(color_new_call_band)}
              => /\ CandidateCodes(probe.call) # {}
                 /\ CandidateCodes(probe.call) \subseteq dxcc_info[ALL]
         /\ (\/ CandidateCodes(probe.call) = {}
             \/ ~(CandidateCodes(probe.call) \subseteq dxcc_info[ALL]))
              => probe.color \in {Ok(color_dxcc), Ok(color_dxcc_band)}

----------------------------------------------------------------------------
(* parse_message alone: one step, which parses the message of one Decode   *)
(* telegram and keeps what came out in probe.  A message is made of words  *)
(* and the whitespace between them                                         *)

MaxTokens == 5

Marginal == Str(<<"a", "1">>)

Grid == Str(<<"J", "N">>)

Words == {CQ, QRZ, OE3, Grid, Marginal}

WordLists == UNION {[1..k -> Words] : k \in 1..MaxTokens}

\* the words with one blank between them
RECURSIVE JoinWords(_)
JoinWords(words) ==
    IF Len(words) = 1 THEN words[1]
    ELSE words[1] \o <<32>> \o JoinWords(Tail(words))

\* the messages of the model, each with the words it is made of: None, the
\* empty str, blanks only, the words of every list, and one message with
\* blanks before, after and doubled
Messages ==
    {[message |-> NoneVal, words |-> << >>],
     [message |-> << >>, words |-> << >>],
     [message |-> <<32>>, words |-> << >>],
     [message |-> <<32, 9, 32>>, words |-> << >>],
     [message |-> <<32>> \o CQ \o <<32, 32>> \o OE3 \o <<9>> \o Grid \o <<32>>,
      words |-> <<CQ, OE3, Grid>>]}
    \cup {[message |-> JoinWords(words), words |-> words] :
            words \in WordLists}

InitParse == pc = "parse" /\ InitState

\* uc.parse_message (tel), tel.message = m.message
ParseMessage(m) ==
    /\ pc = "parse"
    /\ probe = NoProbe
    /\ probe' = [op      |-> "parse_message",
                 message |-> m.message,
                 words   |-> m.words,
                 call    |-> parse_message(m.message)]
    /\ UNCHANGED <<pc, exc, wbfVars, connVars>>

NextParse == \E m \in Messages : ParseMessage(m)

SpecParse == InitParse /\ [][NextParse]_vars

\* the words of a message without the last one if it starts with 'a'
Stripped(words) ==
    IF words # << >> /\ Head(words[Len(words)]) = Ord["a"]
    THEN SubSeq(words, 1, Len(words) - 1)
    ELSE words

\* the word the positional rules pick from the words l, None if no rule
\* applies to l or l has no such word
PositionalCall(l) ==
    IF l = << >> THEN NoneVal
    ELSE IF l[1] \in {CQ, QRZ}
    THEN IF Len(l) = 4 THEN l[3]
         ELSE IF Len(l) >= 2 THEN l[2]
         ELSE NoneVal
    ELSE IF Len(l) \in {2, 3} THEN l[2]
    ELSE NoneVal

\* C19: parse_message raises for no message; for None, the empty str,
\* blanks only, a lone word starting with 'a', a lone CQ or QRZ, CQ or QRZ
\* followed only by a word starting with 'a', and any other number of
\* words no positional rule covers it returns None
ParseMessageNeverRaises ==
    probe.op = "parse_message"
      => /\ probe.call.ok
         /\ PositionalCall(Stripped(probe.words)) = NoneVal
              => probe.call = Ok(NoneVal)

\* C20: with the last word dropped if it starts with 'a', a message that
\* begins with CQ or QRZ yields its third word if 4 words are left and its
\* second word otherwise, and any other message of 2 or of 3 words yields
\* its second word
CallFollowsPositionalRules ==
    (/\ probe.op = "parse_message"
     /\ PositionalCall(Stripped(probe.words)) # NoneVal)
      => probe.call = Ok(PositionalCall(Stripped(probe.words)))

\* a CQ with a word between CQ and the call, as in 'CQ NA PD0XXX JO22',
\* and a last word starting with 'a' was parsed
C20_DirectedCqWithMarginal ==
    /\ probe.op = "parse_message"
    /\ probe.words = <<CQ, Grid, OE3, Grid, Marginal>>
    /\ probe.call = Ok(OE3)

----------------------------------------------------------------------------
(* The startup build, stated on the steps of SpecWbf *)

\* the code of the entity of that name in the list, << >> if it has none
CodeByName(name) ==
    IF \E i \in 1..Len(dxcc_list) : dxcc_list[i].name = name
    THEN dxcc_list[CHOOSE i \in 1..Len(dxcc_list) :
                     dxcc_list[i].name = name].code
    ELSE << >>

\* the code of the one candidate entity of a call, << >> if it has none or
\* several
OnlyCandidate(call) ==
    IF Cardinality(CandidateCodes(call)) = 1
    THEN CHOOSE c \in CandidateCodes(call) : TRUE
    ELSE << >>

\* the code of the first source that yields one: the DXCC field, COUNTRY,
\* COUNTRY_INTL, the one candidate entity of the call; << >> if none does
FirstResolved(rec) ==
    IF rec.dxcc # << >> /\ int10(rec.dxcc).ok
    THEN Format03d(int10(rec.dxcc).v)
    ELSE IF rec.country # "" /\ CodeByName(rec.country) # << >>
    THEN CodeByName(rec.country)
    ELSE IF rec.country_intl # "" /\ CodeByName(rec.country_intl) # << >>
    THEN CodeByName(rec.country_intl)
    ELSE OnlyCandidate(rec.call)

\* C21: the build step for a record that has a band adds to the entity
\* tables of the band and of ALL the code of the first source that yields
\* one (DXCC field, COUNTRY, COUNTRY_INTL, the call's only candidate
\* entity), adds nothing if no source yields one, and the build goes on
EntityCodeByPriority ==
    [][\A rec \in WbfRecords :
          (pc = "build" /\ rec.band # << >> /\ AddRecord(rec))
            => /\ pc' = "build"
               /\ dxcc_info' =
                    IF FirstResolved(rec) = << >> THEN dxcc_info
                    ELSE AddItem(AddItem(dxcc_info, rec.band,
                                         FirstResolved(rec)),
                                 ALL, FirstResolved(rec))]_vars

\* C24: on the tables the build makes, lookup_color (band, call) returns
\* one of the five pairs of colors for every band and call and raises
\* nothing, also for a band that band_info has and dxcc_info has not when
\* a candidate entity of the call is missing from the entity table of ALL
LookupColorIsTotal ==
    probe.op = "lookup_color"
      => probe.color \in {Ok(color_wbf), Ok(color_dxcc), Ok(color_dxcc_band),
                          Ok(color_new_call), Ok(color_new_call_band)}

\* C25: every call table is a subset of the call table of ALL, every
\* entity table a subset of the entity table of ALL, and every band that
\* has an entity table has a call table
BandTablesWithinAll ==
    /\ \A b \in DOMAIN band_info : band_info[b] \subseteq band_info[ALL]
    /\ \A b \in DOMAIN dxcc_info : dxcc_info[b] \subseteq dxcc_info[ALL]
    /\ DOMAIN dxcc_info \subseteq DOMAIN band_info

\* the log gave both bands entities, and one band an entity the other
\* band has not
C25_TwoBandsWithEntities ==
    /\ {band, Band20m} \subseteq DOMAIN dxcc_info
    /\ dxcc_info[band] # dxcc_info[Band20m]
    /\ dxcc_info[band] # {}
    /\ dxcc_info[Band20m] # {}
    /\ band_info[band] # band_info[ALL]

\* C26: on the tables the build makes, lookup_color returns color_dxcc
\* only if the band has no records or the call has no candidate entity;
\* for a band with records and a call not worked on it, one of whose
\* candidate entities is missing from the entity table of ALL, it returns
\* color_dxcc_band; and if all candidate entities are in the entity table
\* of ALL it returns neither color_dxcc nor color_dxcc_band
NewDxccOnlyWithoutRecordsOrCandidates ==
    /\ (probe.op = "lookup_color" /\ probe.color = Ok(color_dxcc))
         => \/ probe.band \notin DOMAIN band_info
            \/ CandidateCodes(probe.call) = {}
    /\ (/\ LookedUpNewOnBand
        /\ ~(CandidateCodes(probe.call) \subseteq dxcc_info[ALL]))
         => probe.color = Ok(color_dxcc_band)
    /\ (/\ LookedUpNewOnBand
        /\ CandidateCodes(probe.call) # {}
        /\ CandidateCodes(probe.call) \subseteq dxcc_info[ALL])
         => probe.color \notin {Ok(color_dxcc), Ok(color_dxcc_band)}

=============================================================================
